---------------------------- MODULE Spec2Model ----------------------------
(***************************************************************************)
(* A model of the athlete dashboard (src/app.py): the Athlete_Data table,  *)
(* the request handlers home, edit, delete_data and add, and the helpers   *)
(* get_month_year and calculate_pace.                                      *)
(*                                                                         *)
(* Representation of Python values:                                        *)
(*   - None, and the empty string, of a text column or form field is the   *)
(*     empty sequence <<>> (the code only ever tests such values for       *)
(*     truthiness); an optional number is <<>> or <<n>>.                   *)
(*   - a text that the code splits is the sequence of its fields: a time   *)
(*     "1:02:03" is the sequence of its ':'-separated fields, a date the   *)
(*     sequence of its '-'-separated fields.  A field is a token           *)
(*     [k, v]: an integer literal, a literal too large for a float, or     *)
(*     text that is no integer.                                            *)
(*   - a formatted pace is the sequence of its characters.                 *)
(*   - a float is an IEEE-754 binary64 value, kept as sign and magnitude,  *)
(*     the magnitude a fixed-point number of NL limbs; every float         *)
(*     operation rounds to MantBits significant bits, ties to even.        *)
(*   - distances and calories are whole numbers.                           *)
(***************************************************************************)
EXTENDS Integers, Sequences, FiniteSets

VARIABLES store, response, call

vars == <<store, response, call>>

None == <<>>

Some(x) == <<x>>

(***************************************************************************)
(* Text fields.                                                            *)
(***************************************************************************)
IntTok(n) == [k |-> "int", v |-> n]

JunkTok == [k |-> "junk", v |-> 0]

\* An integer literal whose value no float can hold (above 60 * 2^1024).
HugeTok == [k |-> "huge", v |-> 0]

(***************************************************************************)
(* Python floats: IEEE-754 binary64, round to nearest, ties to even.       *)
(* A magnitude is a little-endian sequence of NL limbs of LimbBits bits,   *)
(* the lowest FracLimbs of them below the binary point.                    *)
(***************************************************************************)
MantBits == 53

LimbBits == 15

FracLimbs == 5

NL == FracLimbs + 2

LimbBase == 2^LimbBits

BZero == [i \in 1..NL |-> 0]

BFromInt(n) ==
    [i \in 1..NL |-> IF i = FracLimbs + 1 THEN n % LimbBase
                     ELSE IF i = FracLimbs + 2 THEN n \div LimbBase
                     ELSE 0]

BIntPart(a) == a[FracLimbs + 1] + LimbBase * a[FracLimbs + 2]

RECURSIVE BCmpFrom(_, _, _)
BCmpFrom(a, b, i) ==
    IF i = 0 THEN 0
    ELSE IF a[i] > b[i] THEN 1
    ELSE IF a[i] < b[i] THEN -1
    ELSE BCmpFrom(a, b, i - 1)

BCmp(a, b) == BCmpFrom(a, b, NL)

RECURSIVE BCarry(_, _, _)
BCarry(a, b, i) ==
    IF i = 1 THEN 0 ELSE (a[i-1] + b[i-1] + BCarry(a, b, i - 1)) \div LimbBase

BAdd(a, b) == [i \in 1..NL |-> (a[i] + b[i] + BCarry(a, b, i)) % LimbBase]

RECURSIVE BBorrow(_, _, _)
BBorrow(a, b, i) ==
    IF i = 1 THEN 0
    ELSE IF a[i-1] - b[i-1] - BBorrow(a, b, i - 1) < 0 THEN 1 ELSE 0

\* a - b, for a >= b
BSub(a, b) ==
    [i \in 1..NL |-> (a[i] - b[i] - BBorrow(a, b, i) + LimbBase) % LimbBase]

RECURSIVE BMulCarry(_, _, _)
BMulCarry(a, m, i) ==
    IF i = 1 THEN 0 ELSE (a[i-1] * m + BMulCarry(a, m, i - 1)) \div LimbBase

BMulSmall(a, m) == [i \in 1..NL |-> (a[i] * m + BMulCarry(a, m, i)) % LimbBase]

RECURSIVE BDivRem(_, _, _)
BDivRem(a, d, i) ==
    IF i > NL THEN 0 ELSE (BDivRem(a, d, i + 1) * LimbBase + a[i]) % d

\* floor(a / d) and whether a remainder is left (the sticky bit)
BDivSmall(a, d) ==
    [q |-> [i \in 1..NL |-> (BDivRem(a, d, i + 1) * LimbBase + a[i]) \div d],
     sticky |-> BDivRem(a, d, 1) # 0]

RECURSIVE BTopLimb(_, _)
BTopLimb(a, i) == IF i = 0 THEN 0 ELSE IF a[i] # 0 THEN i ELSE BTopLimb(a, i - 1)

RECURSIVE BitsOf(_)
BitsOf(n) == IF n = 0 THEN 0 ELSE 1 + BitsOf(n \div 2)

BBitLen(a) ==
    LET t == BTopLimb(a, NL)
    IN  IF t = 0 THEN 0 ELSE LimbBits * (t - 1) + BitsOf(a[t])

BPow2(e) ==
    [i \in 1..NL |-> IF i = e \div LimbBits + 1 THEN 2^(e % LimbBits) ELSE 0]

BLowBits(a, e) ==
    [i \in 1..NL |-> IF i < e \div LimbBits + 1 THEN a[i]
                     ELSE IF i = e \div LimbBits + 1 THEN a[i] % 2^(e % LimbBits)
                     ELSE 0]

BBitAt(a, e) == (a[e \div LimbBits + 1] \div 2^(e % LimbBits)) % 2

\* The magnitude a (plus something below its last bit when sticky) rounded to
\* MantBits significant bits, ties to even.
BRound(a, sticky) ==
    LET len == BBitLen(a)
    IN  IF len <= MantBits THEN a
        ELSE LET drop == len - MantBits
                 low  == BLowBits(a, drop)
                 c    == BCmp(low, BPow2(drop - 1))
                 up   == c = 1 \/ (c = 0 /\ (sticky \/ BBitAt(a, drop) = 1))
                 base == BSub(a, low)
             IN  IF up THEN BAdd(base, BPow2(drop)) ELSE base

Abs(n) == IF n < 0 THEN -n ELSE n

Float(neg, mag) == [neg |-> neg /\ mag # BZero, mag |-> mag]

\* float(n) of a whole number n
FFromInt(n) == Float(n < 0, BFromInt(Abs(n)))

\* n / d of two ints, d > 0 (true division, correctly rounded)
FIntDiv(n, d) ==
    LET r == BDivSmall(BFromInt(Abs(n)), d)
    IN  Float(n < 0, BRound(r.q, r.sticky))

\* x + y
FAdd(x, y) ==
    IF x.neg = y.neg THEN Float(x.neg, BRound(BAdd(x.mag, y.mag), FALSE))
    ELSE IF BCmp(x.mag, y.mag) >= 0
         THEN Float(x.neg, BRound(BSub(x.mag, y.mag), FALSE))
         ELSE Float(y.neg, BRound(BSub(y.mag, x.mag), FALSE))

\* x / float(d), d a whole number > 0
FDiv(x, d) ==
    LET r == BDivSmall(x.mag, d)
    IN  Float(x.neg, BRound(r.q, r.sticky))

\* x * m, m a whole number > 0
FMul(x, m) == Float(x.neg, BRound(BMulSmall(x.mag, m), FALSE))

\* int(x): truncation towards zero
FTrunc(x) == IF x.neg THEN -BIntPart(x.mag) ELSE BIntPart(x.mag)

(***************************************************************************)
(* f"{n:02d}": sign, then the digits, zero-padded to a width of two.       *)
(***************************************************************************)
DigitChar(d) == <<"0", "1", "2", "3", "4", "5", "6", "7", "8", "9">>[d + 1]

RECURSIVE Digits(_)
Digits(n) ==
    IF n < 10 THEN <<DigitChar(n)>>
    ELSE Digits(n \div 10) \o <<DigitChar(n % 10)>>

Format02d(n) ==
    IF n < 0 THEN <<"-">> \o Digits(-n)
    ELSE IF n < 10 THEN <<"0">> \o Digits(n)
    ELSE Digits(n)

(***************************************************************************)
(* calculate_pace: the value returned, or the exception that escapes.      *)
(***************************************************************************)
Return(value) == [exc |-> "", ret |-> value]

Raise(e) == [exc |-> e, ret |-> None]

\* lines 65-70: the pace of total_minutes over distance_km, formatted
pace_of(total_minutes, distance_km) ==
    LET pace_minutes == FDiv(total_minutes, distance_km)
        pace_mins    == FTrunc(pace_minutes)
        pace_secs    == FTrunc(FMul(FAdd(pace_minutes, FFromInt(-pace_mins)), 60))
    IN  Return(Format02d(pace_mins) \o <<":">> \o Format02d(pace_secs))

calculate_pace(distance_km, time_str) ==
    IF distance_km = None \/ distance_km[1] = 0 \/ distance_km[1] <= 0
       \/ time_str = <<>>
    THEN Return(None)
    ELSE IF Len(time_str) \notin {2, 3} THEN Return(None)
    ELSE IF \E i \in 1..Len(time_str) : time_str[i].k = "junk"
    THEN Return(None)                      \* int() raises ValueError: caught
    ELSE IF \E i \in 1..Len(time_str) : time_str[i].k = "huge"
    THEN Raise("OverflowError")            \* int to float: not caught
    ELSE IF Len(time_str) = 3
    THEN pace_of(FAdd(FFromInt(time_str[1].v * 60 + time_str[2].v),
                      FIntDiv(time_str[3].v, 60)),
                 distance_km[1])
    ELSE pace_of(FAdd(FFromInt(time_str[1].v), FIntDiv(time_str[2].v, 60)),
                 distance_km[1])


(***************************************************************************)
(* Dates.  A datetime is a record [year, month, day]; the text of a date   *)
(* is the sequence of its '-'-separated fields.                            *)
(***************************************************************************)
IsLeap(y) == (y % 4 = 0 /\ y % 100 # 0) \/ y % 400 = 0

DaysInMonth(y, m) ==
    IF m = 2 THEN (IF IsLeap(y) THEN 29 ELSE 28)
    ELSE IF m \in {4, 6, 9, 11} THEN 30 ELSE 31

\* dt.datetime.strptime(text, "%Y-%m-%d"): the datetime, or a ValueError
strptime_ymd(text) ==
    IF /\ Len(text) = 3
       /\ \A i \in 1..3 : text[i].k = "int"
       /\ text[1].v \in 1..9999
       /\ text[2].v \in 1..12
       /\ text[3].v \in 1..DaysInMonth(text[1].v, text[2].v)
    THEN [exc |-> "", ret |-> [year |-> text[1].v, month |-> text[2].v, day |-> text[3].v]]
    ELSE [exc |-> "ValueError", ret |-> [year |-> 0, month |-> 0, day |-> 0]]

\* parsed.strftime("%d-%m-%Y")
strftime_dmy(d) == <<d.day, d.month, d.year>>

\* parsed.strftime("%m-%Y")
strftime_my(d) == <<d.month, d.year>>

\* dt.datetime.strptime(x, "%m-%Y"), of a month_year the application wrote
strptime_my(x) == [year |-> x[2], month |-> x[1], day |-> 1]

DatetimeLess(a, b) ==
    \/ a.year < b.year
    \/ a.year = b.year /\ a.month < b.month
    \/ a.year = b.year /\ a.month = b.month /\ a.day < b.day

get_month_year(date_str) ==
    IF date_str # <<>> /\ Len(date_str) = 3
    THEN <<date_str[2], date_str[3]>>
    ELSE None

(***************************************************************************)
(* The Athlete_Data table: a set of rows.  The primary key is SQLite's     *)
(* rowid: a new row gets the largest id in the table plus one.             *)
(***************************************************************************)
Row(id, date, activity_type, distance, time, pace, calories, month_year) ==
    [id |-> id, date |-> date, activity_type |-> activity_type,
     distance |-> distance, time |-> time, pace |-> pace,
     calories |-> calories, month_year |-> month_year]

Ids(rows) == {r.id : r \in rows}

MaxOf(S) == CHOOSE n \in S : \A m \in S : m <= n

\* the number of rows plus one, instead of the largest id plus one
new_id_by_count(rows) == Cardinality(rows) + 1

new_id(rows) == IF rows = {} THEN 1 ELSE MaxOf(Ids(rows)) + 1

\* db.get_or_404: the rows with this primary key (none: 404)
get_or_404(rows, id) == {r \in rows : r.id = id}

(***************************************************************************)
(* Requests and responses.                                                 *)
(***************************************************************************)
Response(op, status, body) == [op |-> op, status |-> status, body |-> body]

NoResponse == Response("", 0, None)

NoCall == [state |-> "none", distance_km |-> None, time_str |-> <<>>,
           result |-> Return(None)]

\* request.form.get(name, default)
form_get(field, default) == IF field = None THEN default ELSE field[1]

\* float(request.form.get(name, 0)), 0 on a ValueError
to_float(field) ==
    LET raw == form_get(field, IntTok(0))
    IN  IF raw.k = "int" THEN raw.v ELSE 0

DefaultTime == <<IntTok(0), IntTok(0), IntTok(0)>>


(***************************************************************************)
(* home: the list view.                                                    *)
(***************************************************************************)
RECURSIVE TextLessFrom(_, _, _)
TextLessFrom(a, b, i) ==
    IF i > Len(b) THEN FALSE
    ELSE IF i > Len(a) THEN TRUE
    ELSE IF a[i] # b[i] THEN a[i] < b[i]
    ELSE TextLessFrom(a, b, i + 1)

\* a < b of two stored dates, as the database compares them: NULL first, then
\* the texts, whose fields have a fixed width
TextLess(a, b) == TextLessFrom(a, b, 1)

\* ORDER BY date DESC, id DESC: q stands before r
ComesBefore(q, r) ==
    \/ TextLess(r.date, q.date)
    \/ r.date = q.date /\ q.id > r.id

RECURSIVE order_desc(_)
order_desc(rows) ==
    IF rows = {} THEN <<>>
    ELSE LET first == CHOOSE r \in rows : \A q \in rows : ~ComesBefore(q, r)
         IN  <<first>> \o order_desc(rows \ {first})

\* the keys of monthly_data, in the order the loop of lines 108-110 makes them
RECURSIVE month_keys(_)
month_keys(records) ==
    IF records = <<>> THEN <<>>
    ELSE LET n     == Len(records)
             front == month_keys(SubSeq(records, 1, n - 1))
             key   == records[n].month_year
         IN  IF key = None \/ \E i \in 1..Len(front) : front[i] = key
             THEN front
             ELSE Append(front, key)

\* a sum that leaves out the rows without month_year
RECURSIVE sum_distance_grouped(_)
sum_distance_grouped(records) ==
    IF records = <<>> THEN 0
    ELSE (IF Head(records).distance = None \/ Head(records).month_year = None
          THEN 0 ELSE Head(records).distance[1])
         + sum_distance_grouped(Tail(records))

RECURSIVE sum_distance(_)
sum_distance(records) ==
    IF records = <<>> THEN 0
    ELSE (IF Head(records).distance = None THEN 0 ELSE Head(records).distance[1])
         + sum_distance(Tail(records))

RECURSIVE sum_calories(_)
sum_calories(records) ==
    IF records = <<>> THEN 0
    ELSE (IF Head(records).calories = None THEN 0 ELSE Head(records).calories[1])
         + sum_calories(Tail(records))

\* the text of the month_year as the sort key: the month before the year
month_sort_key_text(x) == [year |-> x[1], month |-> x[2], day |-> 1]

\* the key of line 123's sort
month_sort_key(x) == strptime_my(x)

RECURSIVE insert_desc(_, _)
insert_desc(sorted, x) ==
    IF sorted = <<>> THEN <<x>>
    ELSE IF DatetimeLess(month_sort_key(Head(sorted)), month_sort_key(x))
         THEN <<x>> \o sorted
         ELSE <<Head(sorted)>> \o insert_desc(Tail(sorted), x)

\* sorted(keys, key=..., reverse=True): stable, largest key first
RECURSIVE sorted_reverse(_)
sorted_reverse(keys) ==
    IF keys = <<>> THEN <<>>
    ELSE insert_desc(sorted_reverse(SubSeq(keys, 1, Len(keys) - 1)), keys[Len(keys)])

month_group(athlete_data, month) ==
    SelectSeq(athlete_data, LAMBDA r : r.month_year = month)

home(rows) ==
    LET athlete_data == order_desc(rows)
        keys         == month_keys(athlete_data)
        months       == {keys[i] : i \in 1..Len(keys)}
        monthly_data == [month \in months |-> month_group(athlete_data, month)]
    IN  [monthly_data   |-> monthly_data,
         sorted_months  |-> sorted_reverse(keys),
         monthly_totals |->
             [month \in months |->
                 [distance |-> sum_distance(monthly_data[month]),
                  calories |-> sum_calories(monthly_data[month])]],
         total_distance |-> sum_distance(athlete_data),
         total_calories |-> sum_calories(athlete_data)]


(***************************************************************************)
(* Bounds and the submitted inputs.                                        *)
(***************************************************************************)
\* rows the table holds at most
MaxRecords == 2

\* the largest primary key handed out
MaxId == 3

\* ':'-separated fields of a time given to calculate_pace
MaxParts == 4

\* rows of a table that was filled before the application started
MaxLegacy == 3

Form(activity_type, distance, time, calories, date) ==
    [activity_type |-> activity_type, distance |-> distance, time |-> time,
     calories |-> calories, date |-> date]

DateText(y, m, d) == <<IntTok(y), IntTok(m), IntTok(d)>>

\* The forms submitted to add and edit: nothing filled in; the spec's own
\* examples; a distance and calories below zero with a day that is no day
\* of its month; text that is no number, time or date; a time no float holds.
Forms ==
    { Form(None, None, None, None, <<>>),
      Form(Some("Running"), Some(IntTok(5)), Some(<<IntTok(0), IntTok(25), IntTok(0)>>),
           Some(IntTok(300)), DateText(2024, 3, 15)),
      Form(Some("Cycling"), Some(IntTok(3)), Some(<<IntTok(10), IntTok(1)>>),
           Some(IntTok(100)), DateText(2023, 12, 31)),
      Form(None, Some(IntTok(-1)), Some(<<IntTok(10), IntTok(0)>>),
           Some(IntTok(-5)), DateText(2024, 2, 30)),
      Form(Some("Cycling"), Some(JunkTok), Some(<<JunkTok>>),
           Some(JunkTok), <<JunkTok>>),
      Form(Some("Running"), Some(IntTok(5)), Some(<<HugeTok, IntTok(0), IntTok(0)>>),
           Some(IntTok(300)), <<>>) }

\* dt.datetime.now()
Nows == { [year |-> 2025, month |-> 1, day |-> 9],
          [year |-> 2024, month |-> 3, day |-> 20] }

RequestIds == 1..MaxId

\* calculate_pace, evaluated once for each distance and time that a form of
\* Forms submits
pace_table ==
    [distance_km \in {Some(to_float(f.distance)) : f \in Forms},
     time_str \in {form_get(f.time, DefaultTime) : f \in Forms}
        |-> calculate_pace(distance_km, time_str)]

(***************************************************************************)
(* The request handlers.                                                   *)
(***************************************************************************)
Home ==
    /\ response' = Response("home", 200, Some(home(store)))
    /\ UNCHANGED <<store, call>>

EditGet(id) ==
    LET found == get_or_404(store, id)
    IN  /\ response' = IF found = {} THEN Response("edit_get", 404, None)
                       ELSE Response("edit_get", 200, Some(CHOOSE r \in found : TRUE))
        /\ UNCHANGED <<store, call>>

\* an edit that keeps the pace the record had
edit_update_stale_pace(athlete_record, form, pace) ==
    LET new_date_raw == form.date
        parsed       == strptime_ymd(new_date_raw)
        date_ok      == new_date_raw # <<>> /\ parsed.exc = ""
    IN  Row(athlete_record.id,
            IF date_ok THEN strftime_dmy(parsed.ret) ELSE athlete_record.date,
            form_get(form.activity_type, "Running"),
            Some(to_float(form.distance)),
            form_get(form.time, DefaultTime),
            athlete_record.pace,
            Some(to_float(form.calories)),
            IF date_ok THEN strftime_my(parsed.ret) ELSE athlete_record.month_year)

\* lines 143-172: the record as edit leaves it, given the pace line 166 computed
edit_update(athlete_record, form, pace) ==
    LET new_date_raw == form.date
        parsed       == strptime_ymd(new_date_raw)
        date_ok      == new_date_raw # <<>> /\ parsed.exc = ""
    IN  Row(athlete_record.id,
            IF date_ok THEN strftime_dmy(parsed.ret) ELSE athlete_record.date,
            form_get(form.activity_type, "Running"),
            Some(to_float(form.distance)),
            form_get(form.time, DefaultTime),
            pace,
            Some(to_float(form.calories)),
            IF date_ok THEN strftime_my(parsed.ret) ELSE athlete_record.month_year)

EditPost(id, form) ==
    LET found == get_or_404(store, id)
    IN  IF found = {}
        THEN /\ response' = Response("edit_post", 404, None)
             /\ UNCHANGED <<store, call>>
        ELSE LET athlete_record == CHOOSE r \in found : TRUE
                 pace == pace_table[Some(to_float(form.distance)),
                                    form_get(form.time, DefaultTime)]
             IN  IF pace.exc # ""
                 THEN \* the exception ends the request before the commit
                      /\ response' = Response("edit_post", 500, None)
                      /\ UNCHANGED <<store, call>>
                 ELSE /\ store' = (store \ {athlete_record})
                                     \cup {edit_update(athlete_record, form, pace.ret)}
                      /\ response' = Response("edit_post", 302, None)
                      /\ UNCHANGED call

\* a delete that does not look the row up first
DeleteUnchecked(id) ==
    /\ store' = {r \in store : r.id # id}
    /\ response' = Response("delete", 302, None)
    /\ UNCHANGED call

Delete(id) ==
    LET found == get_or_404(store, id)
    IN  IF found = {}
        THEN /\ response' = Response("delete", 404, None)
             /\ UNCHANGED <<store, call>>
        ELSE /\ store' = store \ {CHOOSE r \in found : TRUE}
             /\ response' = Response("delete", 302, None)
             /\ UNCHANGED call

\* an add that stores no date when the submitted one does not parse
add_record_no_fallback(rows, form, now, pace) ==
    LET date_raw == form.date
        parsed   == strptime_ymd(date_raw)
        date_ok  == date_raw # <<>> /\ parsed.exc = ""
    IN  Row(new_id(rows),
            IF date_ok THEN strftime_dmy(parsed.ret) ELSE None,
            form_get(form.activity_type, "Running"),
            Some(to_float(form.distance)),
            form_get(form.time, DefaultTime),
            pace,
            Some(to_float(form.calories)),
            IF date_ok THEN strftime_my(parsed.ret) ELSE None)

\* lines 201-247: the record add builds, given the pace line 214 computed
add_record(rows, form, now, pace) ==
    LET date_raw == form.date
        parsed   == strptime_ymd(date_raw)
        when     == IF date_raw # <<>> /\ parsed.exc = "" THEN parsed.ret ELSE now
    IN  Row(new_id(rows),
            strftime_dmy(when),
            form_get(form.activity_type, "Running"),
            Some(to_float(form.distance)),
            form_get(form.time, DefaultTime),
            pace,
            Some(to_float(form.calories)),
            strftime_my(when))

Add(form, now) ==
    LET pace == pace_table[Some(to_float(form.distance)),
                           form_get(form.time, DefaultTime)]
    IN  /\ Cardinality(store) < MaxRecords
        /\ new_id(store) <= MaxId
        /\ IF pace.exc # ""
           THEN /\ response' = Response("add", 500, None)
                /\ UNCHANGED <<store, call>>
           ELSE /\ store' = store \cup {add_record(store, form, now, pace.ret)}
                /\ response' = Response("add", 302, None)
                /\ UNCHANGED call

Init ==
    /\ store = {}
    /\ response = NoResponse
    /\ call = NoCall

Next ==
    \/ Home
    \/ \E id \in RequestIds : EditGet(id)
    \/ \E id \in RequestIds, form \in Forms : EditPost(id, form)
    \/ \E id \in RequestIds : Delete(id)
    \/ \E form \in Forms, now \in Nows : Add(form, now)

Spec == Init /\ [][Next]_vars

(***************************************************************************)
(* calculate_pace on its own: every distance of PaceDistances with every   *)
(* time of at most MaxParts fields drawn from PartToks.                    *)
(***************************************************************************)
PartToks ==
    {IntTok(0), IntTok(1), IntTok(59), IntTok(100), IntTok(-30), JunkTok, HugeTok}

PaceTimes == UNION {[1..n -> PartToks] : n \in 0..MaxParts}

PaceDistances == {None, Some(-1), Some(0), Some(1), Some(3), Some(7)}

InitPace ==
    /\ store = {}
    /\ response = NoResponse
    /\ call \in {[state |-> "pending", distance_km |-> d, time_str |-> t,
                  result |-> Return(None)] : d \in PaceDistances, t \in PaceTimes}

CallPace ==
    /\ call.state = "pending"
    /\ call' = [call EXCEPT !.state = "done",
                            !.result = calculate_pace(call.distance_km, call.time_str)]
    /\ UNCHANGED <<store, response>>

SpecPace == InitPace /\ [][CallPace]_vars

(***************************************************************************)
(* The list view of a table filled before the application started: any     *)
(* column may be NULL, and a row written before month_year existed has a   *)
(* date and no month_year.                                                 *)
(***************************************************************************)
LegacyDates ==
    { <<None, None>>,
      <<<<15, 1, 2024>>, None>>,
      <<<<15, 1, 2024>>, <<1, 2024>>>>,
      <<<<20, 2, 2024>>, <<2, 2024>>>>,
      <<<<5, 12, 2023>>, <<12, 2023>>>> }

LegacyAmounts ==
    { <<None, None>>, <<Some(5), Some(300)>>, <<Some(3), None>>, <<Some(10), Some(50)>> }

LegacyTables ==
    { { Row(id, t[id][1][1][1], "Running", t[id][1][2][1], DefaultTime, None,
            t[id][1][2][2], t[id][1][1][2]) : id \in {i \in 1..MaxLegacy : t[i] # None} }
      : t \in [1..MaxLegacy -> {None} \cup {Some(<<d, a>>) : d \in LegacyDates,
                                                            a \in LegacyAmounts}] }

InitAgg ==
    /\ store \in LegacyTables
    /\ response = NoResponse
    /\ call = NoCall

SpecAgg == InitAgg /\ [][Home]_vars

(***************************************************************************)
(* The properties.                                                         *)
(***************************************************************************)
RowOf(rows, id) == CHOOSE r \in rows : r.id = id

OrZero(x) == IF x = None THEN 0 ELSE x[1]

RECURSIVE TotalDistance(_)
TotalDistance(rows) ==
    IF rows = {} THEN 0
    ELSE LET r == CHOOSE r \in rows : TRUE
         IN  OrZero(r.distance) + TotalDistance(rows \ {r})

RECURSIVE TotalCalories(_)
TotalCalories(rows) ==
    IF rows = {} THEN 0
    ELSE LET r == CHOOSE r \in rows : TRUE
         IN  OrZero(r.calories) + TotalCalories(rows \ {r})

RECURSIVE SumOver(_, _)
SumOver(f, S) ==
    IF S = {} THEN 0
    ELSE LET x == CHOOSE x \in S : TRUE IN f[x] + SumOver(f, S \ {x})

SeqSet(q) == {q[i] : i \in 1..Len(q)}

InvalidDate(form) == form.date = <<>> \/ strptime_ymd(form.date).exc # ""

\* the list view that the last request rendered
Listed == response.op = "home" /\ response.status = 200

View == response.body[1]

\* C1: in every state of the table, each row's pace is calculate_pace of the
\* distance and time the row holds, and its month_year is get_month_year of
\* the date it holds.
C1_DerivedFieldsAgree ==
    \A r \in store :
        /\ r.pace = pace_table[r.distance, r.time].ret
        /\ r.month_year = get_month_year(r.date)

\* an edit has replaced a row's distance, time and date, and the row has a pace
C1_Witness ==
    /\ response.op = "edit_post" /\ response.status = 302
    /\ \E r \in store : r.pace = <<"0", "3", ":", "2", "0">> /\ r.date = <<31, 12, 2023>>
    /\ \E r \in store : r.pace = None /\ r.distance = Some(-1)

\* C2: an edit fetch, an edit and a delete of an id that no row has answer 404
\* and leave the table as it was.
C2_NotFoundLeavesStore ==
    [][\A id \in RequestIds :
          (/\ id \notin Ids(store)
           /\ \/ EditGet(id)
              \/ \E form \in Forms : EditPost(id, form)
              \/ Delete(id))
          => (response'.status = 404 /\ store' = store)]_vars

\* a request for an id that no row has was answered, with rows in the table
C2_Witness ==
    /\ response.status = 404
    /\ response.op = "delete"
    /\ store # {}

\* C3: an edit of an existing row with an empty or unparsable date keeps the
\* row's date and month_year, replaces activity_type, distance, time and
\* calories by the submitted ones, derives the pace again, and changes no
\* other row.
C3_EditInvalidDate ==
    [][\A id \in Ids(store), form \in Forms :
          (EditPost(id, form) /\ InvalidDate(form))
          => /\ Ids(store') = Ids(store)
             /\ \A r \in store : r.id # id => r \in store'
             /\ LET old == RowOf(store, id)
                    new == RowOf(store', id)
                IN  /\ new.date = old.date
                    /\ new.month_year = old.month_year
                    /\ new.activity_type = form_get(form.activity_type, "Running")
                    /\ new.distance = Some(to_float(form.distance))
                    /\ new.time = form_get(form.time, DefaultTime)
                    /\ new.calories = Some(to_float(form.calories))
                    /\ new.pace = pace_table[new.distance, new.time].ret]_vars

\* C4: the list view's groups are exactly the rows of each month_year, the
\* month totals are the sums over those rows with NULL counted as 0, a row
\* without month_year is in no group, no total and not in sorted_months,
\* and the overall totals are the sums over all rows.
C4_AggregationPartitions ==
    Listed =>
        LET months == {r.month_year : r \in store} \ {None}
        IN  /\ DOMAIN View.monthly_data = months
            /\ DOMAIN View.monthly_totals = months
            /\ SeqSet(View.sorted_months) = months
            /\ \A m \in months :
                  LET rows == {r \in store : r.month_year = m}
                  IN  /\ SeqSet(View.monthly_data[m]) = rows
                      /\ Len(View.monthly_data[m]) = Cardinality(rows)
                      /\ View.monthly_totals[m].distance = TotalDistance(rows)
                      /\ View.monthly_totals[m].calories = TotalCalories(rows)
            /\ View.total_distance = TotalDistance(store)
            /\ View.total_calories = TotalCalories(store)

\* a list view of two rows of one month, one of them without a distance, and a
\* row without month_year that counts in the overall total only
C4_Witness ==
    /\ Listed
    /\ \E m \in DOMAIN View.monthly_data :
          /\ Len(View.monthly_data[m]) = 2
          /\ \E i \in 1..2 : View.monthly_data[m][i].distance = None
          /\ View.monthly_totals[m].distance = 5
    /\ \E r \in store : r.month_year = None /\ r.distance = Some(10)
    /\ View.total_distance = 15

\* C5: sorted_months holds each month_year of the table once, the later month
\* of the calendar first.
C5_SortedByCalendar ==
    Listed =>
        LET months == {r.month_year : r \in store} \ {None}
            sm     == View.sorted_months
        IN  /\ SeqSet(sm) = months
            /\ Len(sm) = Cardinality(months)
            /\ \A i, j \in 1..Len(sm) :
                  i < j => \/ sm[i][2] > sm[j][2]
                           \/ sm[i][2] = sm[j][2] /\ sm[i][1] > sm[j][1]

\* a list view of months on both sides of a new year
C5_Witness ==
    /\ Listed
    /\ View.sorted_months = << <<2, 2024>>, <<1, 2024>>, <<12, 2023>> >>

IsDigit(c) == c \in {"0", "1", "2", "3", "4", "5", "6", "7", "8", "9"}

DigitValue(c) == CHOOSE d \in 0..9 : DigitChar(d) = c

Called == call.state = "done"

\* C6: calculate_pace raises nothing, and returns None when the distance is
\* None, zero or negative, when the time has neither 2 nor 3 fields, and when
\* a field is no integer.
C6_PaceIsTotal ==
    Called =>
        /\ call.result.exc = ""
        /\ ( \/ call.distance_km = None
             \/ call.distance_km[1] <= 0
             \/ Len(call.time_str) \notin {2, 3}
             \/ \E i \in 1..Len(call.time_str) : call.time_str[i].k = "junk" )
           => call.result.ret = None

\* C7: for a distance above zero and a time of 2 or 3 integer fields,
\* calculate_pace returns two digits, a colon and two digits, the first pair
\* the whole minutes per km and the second the whole seconds left, at most 59.
C7_PaceFormat ==
    ( /\ Called
      /\ call.distance_km # None
      /\ call.distance_km[1] > 0
      /\ Len(call.time_str) \in {2, 3}
      /\ \A i \in 1..Len(call.time_str) : call.time_str[i].k # "junk" )
    => /\ call.result.exc = ""
       /\ LET p == call.result.ret
              t == call.time_str
              seconds == IF Len(t) = 3 THEN t[1].v * 3600 + t[2].v * 60 + t[3].v
                         ELSE t[1].v * 60 + t[2].v
              d == call.distance_km[1]
          IN  /\ Len(p) = 5
              /\ p[3] = ":"
              /\ \A i \in {1, 2, 4, 5} : IsDigit(p[i])
              /\ 10 * DigitValue(p[4]) + DigitValue(p[5]) <= 59
              /\ 10 * DigitValue(p[1]) + DigitValue(p[2]) = seconds \div (60 * d)
              /\ 10 * DigitValue(p[4]) + DigitValue(p[5]) = (seconds % (60 * d)) \div d

\* C8: after every add and edit the distances and calories of all rows are
\* at least 0, and a submitted distance or calories that is no number is
\* stored as 0.
C8_NonNegative ==
    [][\A form \in Forms :
          ( \/ \E now \in Nows : Add(form, now)
            \/ \E id \in RequestIds : EditPost(id, form) )
          => /\ \A r \in store' : r.distance[1] >= 0 /\ r.calories[1] >= 0
             /\ \A r \in store' \ store :
                   /\ (form.distance # None /\ form.distance[1].k = "junk")
                         => r.distance = Some(0)
                   /\ (form.calories # None /\ form.calories[1].k = "junk")
                         => r.calories = Some(0)]_vars

\* C9: no two rows share an id; an edit changes the id of no row (the ids of
\* the table stay the same and at most the edited row changes); the row an
\* add inserts has an id that no row had.
C9_IdsUniqueAndStable ==
    [][/\ \A r, q \in store' : r.id = q.id => r = q
       /\ response'.op = "edit_post"
             => /\ Ids(store') = Ids(store)
                /\ Cardinality(store \ store') <= 1
       /\ (response'.op = "add" /\ response'.status = 302)
             => /\ store \subseteq store'
                /\ Cardinality(store') = Cardinality(store) + 1
                /\ \A r \in store' \ store : r.id \notin Ids(store)]_vars

\* an add has inserted a row beside an existing one after a delete freed an id
C9_Witness ==
    /\ response.op = "add" /\ response.status = 302
    /\ Ids(store) = {2, 3}

=============================================================================
